---------------------------- MODULE Spec2Model ----------------------------
(***************************************************************************)
(* A model of the serverless-auto-swagger plugin (src/src/index.ts): the   *)
(* generate-swagger command (beforeGather, gatherTypes, generateSwagger,   *)
(* addEndpointsAndLambda), and the pure helpers generatePaths,             *)
(* formatResponses and httpEventToParameters.                              *)
(*                                                                         *)
(* Encoding of JavaScript values:                                          *)
(*   - an optional value is None (undefined) or Some(v);                   *)
(*   - an object used as a map is a TLA+ function on its set of keys;      *)
(*   - a path template and every name cut out of it is a sequence of       *)
(*     one-character strings, so that the regular expression of            *)
(*     httpEventToParameters is modelled character by character;           *)
(*   - other strings (descriptions, schema names, status codes, methods)   *)
(*     are TLA+ strings, "" being the empty (falsy) string.                *)
(***************************************************************************)
EXTENDS Naturals, Sequences, FiniteSets, TLC

VARIABLES
    pc,                   \* position of the generate-swagger command
    swagger,              \* this.swagger
    functions,            \* this.serverless.service.functions
    typefiles,            \* custom.swagger.typefiles: None or Some(list of sources)
    defaultFile,          \* the content of ./src/types/api-types.d.ts
    typesFile,            \* gatherTypes: const typesFile
    promises,                 \* gatherTypes: the promise of each mapped source
    combinedDefinitions,  \* gatherTypes: let combinedDefinitions
    written,              \* what generateSwagger handed to writeFile
    httpEvent,            \* argument of httpEventToParameters
    parameters,           \* result of httpEventToParameters
    responses,            \* argument of formatResponses
    formatted             \* result of formatResponses

vars == <<pc, swagger, functions, typefiles, defaultFile, typesFile, promises,
          combinedDefinitions, written, httpEvent, parameters, responses,
          formatted>>

(***************************************************************************)
(* Bounds of the model.                                                    *)
(***************************************************************************)
MaxSources == 3
MaxPieces == 3
MaxDeclared == 2
MaxResponses == 2
MaxFunctions == 2
MaxEvents == 3

(***************************************************************************)
(* JavaScript values.                                                      *)
(***************************************************************************)
None == <<>>
Some(v) == <<v>>
IsSome(o) == o # <<>>
Get(o) == o[1]

\* a truthy optional string: defined and not the empty string
Truthy(o) == IsSome(o) /\ Get(o) # ""

EmptyMap == [k \in {} |-> None]

\* { ...a, ...b }
Spread(a, b) ==
    [k \in DOMAIN a \cup DOMAIN b |-> IF k \in DOMAIN b THEN b[k] ELSE a[k]]

SeqsUpTo(S, n) == UNION { [1..k -> S] : k \in 0..n }

IsBrace(c) == c \in {"{", "}"}

(***************************************************************************)
(* httpEvent.path.match(/[^{\}]+(?=})/g)                                   *)
(*                                                                         *)
(* At a start position s the greedy [^{}]+ takes the whole run of          *)
(* non-brace characters and backtracks to shorter runs until the           *)
(* lookahead finds "}" right after it; the global match restarts after     *)
(* the end of each match.                                                  *)
(***************************************************************************)
RunLen(p, s) ==
    LET ends == { e \in s..Len(p) : \A k \in s..e : ~IsBrace(p[k]) }
    IN  Cardinality(ends)

MatchAt(p, s) ==
    LET lens == { k \in 1..RunLen(p, s) : s + k <= Len(p) /\ p[s + k] = "}" }
    IN  IF lens = {} THEN 0 ELSE CHOOSE k \in lens : \A j \in lens : j <= k

RECURSIVE MatchFrom(_, _)
MatchFrom(p, i) ==
    IF i > Len(p) THEN <<>>
    ELSE LET k == MatchAt(p, i)
         IN  IF k = 0 THEN MatchFrom(p, i + 1)
             ELSE <<SubSeq(p, i, i + k - 1)>> \o MatchFrom(p, i + k)

\* the same expression without the g flag: the first match only
PathMatchFirstOnly(p) ==
    LET m == MatchFrom(p, 1) IN IF m = <<>> THEN None ELSE Some(<<Head(m)>>)

\* null (None) when nothing matches, else the array of matches
PathMatch(p) ==
    LET m == MatchFrom(p, 1) IN IF m = <<>> THEN None ELSE Some(m)

(***************************************************************************)
(* removeStringFromArray of ./helperFunctions: "remove that name from the  *)
(* set extracted" from the template.                                       *)
(***************************************************************************)
RECURSIVE removeStringFromArray(_, _)
removeStringFromArray(array, str) ==
    IF array = <<>> THEN <<>>
    ELSE IF Head(array) = str THEN removeStringFromArray(Tail(array), str)
    ELSE <<Head(array)>> \o removeStringFromArray(Tail(array), str)

(***************************************************************************)
(* httpEventToParameters                                                   *)
(***************************************************************************)
BodyParameter(bodyType) ==
    [in |-> "body", name |-> "body",
     description |-> "Body required in the request", required |-> TRUE,
     schema |-> [ref |-> "#/definitions/" \o bodyType]]

\* a path parameter that ignores the declared flag
PathParameterAlwaysRequired(param, required) ==
    [name |-> param, in |-> "path", required |-> TRUE, type |-> "string"]

PathParameter(param, required) ==
    [name |-> param, in |-> "path", required |-> required, type |-> "string"]

\* (httpEvent as FullHttpEvent['http']).parameters?.path
DeclaredPath(ev) ==
    IF IsSome(ev.parameters) THEN Get(ev.parameters).path ELSE None

\* a declared object, even an empty one, is truthy
HasDeclaredPath(ev) == IsSome(DeclaredPath(ev))

RECURSIVE RemoveDeclared(_, _)
RemoveDeclared(pathParameters, raw) ==
    IF raw = <<>> THEN pathParameters
    ELSE RemoveDeclared(removeStringFromArray(pathParameters, Head(raw)[1]),
                        Tail(raw))

MatchedNames(ev) ==
    LET m == PathMatch(ev.path) IN IF IsSome(m) THEN Get(m) ELSE <<>>

httpEventToParameters(ev) ==
    LET body == IF Truthy(ev.bodyType)
                THEN <<BodyParameter(Get(ev.bodyType))>> ELSE <<>>
        implicit ==
            IF ~HasDeclaredPath(ev) /\ IsSome(PathMatch(ev.path))
            THEN [i \in 1..Len(MatchedNames(ev)) |->
                      PathParameter(MatchedNames(ev)[i], TRUE)]
            ELSE <<>>
        explicit ==
            IF HasDeclaredPath(ev)
            THEN LET raw == Get(DeclaredPath(ev))
                     rest == RemoveDeclared(MatchedNames(ev), raw)
                 IN  [i \in 1..Len(raw) |-> PathParameter(raw[i][1], raw[i][2])]
                     \o [i \in 1..Len(rest) |-> PathParameter(rest[i], TRUE)]
            ELSE <<>>
    IN  body \o implicit \o explicit

(***************************************************************************)
(* formatResponses                                                         *)
(*                                                                         *)
(* A declared response is [kind |-> "string", text |-> s] or               *)
(* [kind |-> "object", description |-> optional, bodyType |-> optional].   *)
(***************************************************************************)
\* a formatter that drops the declared description of a structured value
FormatResponseDefaultOnly(statusCode, responseDetails) ==
    IF responseDetails.kind = "string"
    THEN [description |-> responseDetails.text]
    ELSE IF Truthy(responseDetails.bodyType)
         THEN [description |-> statusCode \o " response",
               schema |-> [ref |-> "#/definitions/"
                                       \o Get(responseDetails.bodyType)]]
         ELSE [description |-> statusCode \o " response"]

FormatResponse(statusCode, responseDetails) ==
    IF responseDetails.kind = "string"
    THEN [description |-> responseDetails.text]
    ELSE LET description ==
                 IF Truthy(responseDetails.description)
                 THEN Get(responseDetails.description)
                 ELSE statusCode \o " response"
         IN  IF Truthy(responseDetails.bodyType)
             THEN [description |-> description,
                   schema |-> [ref |-> "#/definitions/"
                                           \o Get(responseDetails.bodyType)]]
             ELSE [description |-> description]

formatResponses(r) ==
    IF ~IsSome(r)
    THEN [statusCode \in {"200"} |-> [description |-> "200 response"]]
    ELSE [statusCode \in DOMAIN Get(r) |->
              FormatResponse(statusCode, Get(r)[statusCode])]

\* TODO - add security sections: always undefined
httpEventToSecurity(http) == None

(***************************************************************************)
(* generatePaths                                                           *)
(*                                                                         *)
(* functions is the list of Object.entries(functions): records             *)
(* [name, events], events being None or Some(list of events).  An event    *)
(* is [http |-> optional, httpApi |-> optional]; a trigger is the          *)
(* shorthand [kind |-> "string", text |-> s] or an object                  *)
(* [kind |-> "object", path, method, description, swaggerTags, bodyType,   *)
(* parameters, responses].                                                 *)
(***************************************************************************)
\* a trigger is truthy unless it is undefined or the empty string
TruthyTrigger(o) == IsSome(o) /\ ~(Get(o).kind = "string" /\ Get(o).text = "")

\* (event as HttpEvent).http || (event as HttpApiEvent).httpApi
TriggerOf(event) ==
    IF TruthyTrigger(event.http) THEN event.http ELSE event.httpApi

IsHttpEvent(event) == TruthyTrigger(TriggerOf(event))

NormalizePath(path) ==
    IF Len(path) = 0 \/ path[1] # "/" THEN <<"/">> \o path ELSE path

Operation(functionName, http) ==
    [summary |-> functionName,
     description |-> IF Truthy(http.description)
                     THEN Get(http.description) ELSE "",
     tags |-> http.swaggerTags,
     operationId |-> functionName,
     consumes |-> <<"application/json">>,
     produces |-> <<"application/json">>,
     parameters |-> httpEventToParameters(http),
     responses |-> formatResponses(http.responses),
     security |-> httpEventToSecurity(http)]

\* a changed callback that does not skip the shorthand form
AddEventNoSkip(paths, functionName, event) ==
    LET http == Get(TriggerOf(event))
        path == IF http.kind = "string" THEN <<"/">> ELSE NormalizePath(http.path)
        method == IF http.kind = "string" THEN http.text ELSE http.method
        op == IF http.kind = "string"
              THEN [summary |-> functionName, operationId |-> functionName]
              ELSE Operation(functionName, http)
        old == IF path \in DOMAIN paths THEN paths[path] ELSE EmptyMap
    IN  Spread(paths, [q \in {path} |-> Spread(old, [m \in {method} |-> op])])

\* the body of the inner map callback
AddEvent(paths, functionName, event) ==
    LET http == Get(TriggerOf(event))
    IN  IF http.kind = "string" THEN paths
        ELSE LET path == NormalizePath(http.path)
                 old == IF path \in DOMAIN paths THEN paths[path] ELSE EmptyMap
             IN  Spread(paths,
                        [q \in {path} |->
                            Spread(old, [m \in {http.method} |->
                                            Operation(functionName, http)])])

EventsOf(config) == IF IsSome(config.events) THEN Get(config.events) ELSE <<>>

RECURSIVE AddEvents(_, _, _)
AddEvents(paths, functionName, events) ==
    IF events = <<>> THEN paths
    ELSE AddEvents(IF IsHttpEvent(Head(events))
                   THEN AddEvent(paths, functionName, Head(events))
                   ELSE paths,
                   functionName, Tail(events))

RECURSIVE AddFunctions(_, _)
AddFunctions(paths, fns) ==
    IF fns = <<>> THEN paths
    ELSE AddFunctions(AddEvents(paths, Head(fns).name, EventsOf(Head(fns))),
                      Tail(fns))

generatePaths(fns) == AddFunctions(EmptyMap, fns)

(***************************************************************************)
(* The generate-swagger command.                                           *)
(*                                                                         *)
(* A type-definition source is [kind, schemas]: kind "unreadable"          *)
(* (readFileSync throws), "unconvertible" (convert rejects), "invalid"     *)
(* (JSON.parse or .components.schemas throws) or "ok", schemas then being  *)
(* the parsed components.schemas of the rewritten output.  The bodies of   *)
(* the schema definitions are opaque values.                               *)
(***************************************************************************)
ServiceName == "orders"

InitialSwagger ==
    [swagger |-> "2.0",
     info |-> [title |-> "", version |-> "1"],
     schemes |-> <<"https">>,
     paths |-> EmptyMap,
     definitions |-> None]

\* ./resources/functions: the documentation-serving function
swaggerFunctions ==
    << [name |-> "swaggerUI",
        events |-> Some(<< [http |-> None,
                            httpApi |-> Some([kind |-> "object",
                                              path |-> <<"/", "s">>,
                                              method |-> "get",
                                              description |-> None,
                                              swaggerTags |-> None,
                                              bodyType |-> None,
                                              parameters |-> None,
                                              responses |-> None])] >>)] >>

\* { ...a, ...b } on lists of entries: a key keeps its place, new keys follow
RECURSIVE SpreadEntries(_, _)
SpreadEntries(a, b) ==
    IF b = <<>> THEN a
    ELSE LET e == Head(b)
             at == { i \in 1..Len(a) : a[i].name = e.name }
         IN  SpreadEntries(IF at = {} THEN Append(a, e)
                           ELSE [i \in 1..Len(a) |-> IF i \in at THEN e ELSE a[i]],
                           Tail(b))

\* before:generate-swagger:gatherTypes
BeforeGather ==
    /\ pc = "beforeGather"
    /\ swagger' = [swagger EXCEPT !.info.title = ServiceName]
    /\ pc' = "gatherTypes"
    /\ UNCHANGED <<functions, typefiles, defaultFile, typesFile, promises,
                   combinedDefinitions, written, httpEvent, parameters,
                   responses, formatted>>

\* gatherTypes up to the await of Promise.all: every mapped callback runs to
\* its first await, a source that cannot be read rejecting its promise
GatherTypesStart ==
    /\ pc = "gatherTypes"
    /\ typesFile' = IF IsSome(typefiles) THEN Get(typefiles) ELSE <<defaultFile>>
    /\ combinedDefinitions' = EmptyMap
    /\ promises' = [i \in 1..Len(typesFile') |->
                   IF typesFile'[i].kind = "unreadable" THEN "rejected"
                   ELSE "pending"]
    /\ pc' = "awaitAll"
    /\ UNCHANGED <<swagger, functions, typefiles, defaultFile, written,
                   httpEvent, parameters, responses, formatted>>

\* the rest of one mapped callback, run when its conversion settles
ConvertSettles(i) ==
    /\ pc # "beforeGather"
    /\ i \in DOMAIN promises
    /\ promises[i] = "pending"
    /\ IF typesFile[i].kind = "ok"
       THEN /\ combinedDefinitions' =
                   Spread(combinedDefinitions, typesFile[i].schemas)
            /\ promises' = [promises EXCEPT ![i] = "fulfilled"]
       ELSE /\ promises' = [promises EXCEPT ![i] = "rejected"]
            /\ UNCHANGED combinedDefinitions
    /\ UNCHANGED <<pc, swagger, functions, typefiles, defaultFile, typesFile,
                   written, httpEvent, parameters, responses, formatted>>

\* Promise.all fulfilled: line 100
GatherTypesAssign ==
    /\ pc = "awaitAll"
    /\ \A i \in DOMAIN promises : promises[i] = "fulfilled"
    /\ swagger' = [swagger EXCEPT !.definitions = Some(combinedDefinitions)]
    /\ pc' = "generateSwagger"
    /\ UNCHANGED <<functions, typefiles, defaultFile, typesFile, promises,
                   combinedDefinitions, written, httpEvent, parameters,
                   responses, formatted>>

\* Promise.all rejected by the first rejection: the catch of line 102
GatherTypesCatch ==
    /\ pc = "awaitAll"
    /\ \E i \in DOMAIN promises : promises[i] = "rejected"
    /\ pc' = "generateSwagger"
    /\ UNCHANGED <<swagger, functions, typefiles, defaultFile, typesFile, promises,
                   combinedDefinitions, written, httpEvent, parameters,
                   responses, formatted>>

\* generateSwagger up to the await of writeFile
GenerateSwagger ==
    /\ pc = "generateSwagger"
    /\ swagger' = [swagger EXCEPT !.paths = generatePaths(functions)]
    /\ written' = Some(swagger')
    /\ pc' = "writeFile"
    /\ UNCHANGED <<functions, typefiles, defaultFile, typesFile, promises,
                   combinedDefinitions, httpEvent, parameters, responses,
                   formatted>>

WriteFileDone ==
    /\ pc = "writeFile"
    /\ pc' = "addEndpointsAndLambda"
    /\ UNCHANGED <<swagger, functions, typefiles, defaultFile, typesFile, promises,
                   combinedDefinitions, written, httpEvent, parameters,
                   responses, formatted>>

\* a rejected writeFile propagates out of generateSwagger
WriteFileFails ==
    /\ pc = "writeFile"
    /\ pc' = "failed"
    /\ UNCHANGED <<swagger, functions, typefiles, defaultFile, typesFile, promises,
                   combinedDefinitions, written, httpEvent, parameters,
                   responses, formatted>>

AddEndpointsAndLambda ==
    /\ pc = "addEndpointsAndLambda"
    /\ functions' = SpreadEntries(functions, swaggerFunctions)
    /\ pc' = "done"
    /\ UNCHANGED <<swagger, typefiles, defaultFile, typesFile, promises,
                   combinedDefinitions, written, httpEvent, parameters,
                   responses, formatted>>

(***************************************************************************)
(* Inputs.                                                                 *)
(***************************************************************************)
SchemaNames == {"Widget", "Gadget"}
SchemaBodies == {"d1", "d2"}
SchemaMaps == UNION { [D -> SchemaBodies] : D \in SUBSET SchemaNames }

SourceInputs ==
    { [kind |-> k, schemas |-> EmptyMap] :
          k \in {"unreadable", "unconvertible", "invalid"} }
    \cup { [kind |-> "ok", schemas |-> m] : m \in SchemaMaps }

RECURSIVE Flatten(_)
Flatten(ss) == IF ss = <<>> THEN <<>> ELSE Head(ss) \o Flatten(Tail(ss))

\* path templates are built from these pieces, braces alone included
Pieces ==
    { <<"/">>, <<"a">>, <<"{">>, <<"}">>,
      <<"{", "a", "}">>, <<"{", "b", "}">> }

PathInputs == { Flatten(ss) : ss \in SeqsUpTo(Pieces, MaxPieces) }

DeclaredNames == { <<"a">>, <<"b">> }

\* the entries of a parameters.path object: distinct names, insertion order
DeclaredInputs ==
    { d \in SeqsUpTo(DeclaredNames \X BOOLEAN, MaxDeclared) :
          \A i, j \in 1..Len(d) : i # j => d[i][1] # d[j][1] }

ParametersInputs ==
    { None, Some([path |-> None]) }
    \cup { Some([path |-> Some(d)]) : d \in DeclaredInputs }

OptionalNames(S) == { None, Some("") } \cup { Some(x) : x \in S }

HttpEventInputs ==
    [kind : {"object"}, path : PathInputs, method : {"get"},
     description : {None}, swaggerTags : {None},
     bodyType : OptionalNames({"Order"}),
     parameters : ParametersInputs, responses : {None}]

StatusCodes == {"200", "201", "404"}

ResponseDetailsInputs ==
    [kind : {"string"}, text : {"", "Created"}]
    \cup [kind : {"object"},
          description : OptionalNames({"OK"}),
          bodyType : OptionalNames({"User"})]

ResponsesInputs ==
    { None }
    \cup { Some(r) : r \in UNION { [D -> ResponseDetailsInputs] :
                        D \in { X \in SUBSET StatusCodes :
                                    Cardinality(X) <= MaxResponses } } }

Trigger(path, method) ==
    [kind |-> "object", path |-> path, method |-> method,
     description |-> None, swaggerTags |-> None, bodyType |-> None,
     parameters |-> None, responses |-> None]

Shorthand(text) == [kind |-> "string", text |-> text]

TriggerInputs ==
    { Trigger(<<"u">>, "get"),
      [Trigger(<<"/", "u">>, "GET") EXCEPT
           !.description = Some("d"), !.swaggerTags = Some(<<"t">>)],
      Shorthand("GET /u") }

EventInputs ==
    { [http |-> Some(t), httpApi |-> None] : t \in TriggerInputs }
    \cup { [http |-> None,
            httpApi |-> Some([Trigger(<<"{", "a", "}">>, "post") EXCEPT
                !.bodyType = Some("Order"),
                !.responses = Some([c \in {"201"} |->
                                  [kind |-> "string", text |-> "Created"]])])],
           [http |-> Some(Shorthand("")),
            httpApi |-> Some(Trigger(<<"/", "u">>, "get"))],
           [http |-> None, httpApi |-> None] }

\* the lengths of n consecutive parts of a list of len events
RECURSIVE PartLengths(_, _)
PartLengths(len, n) ==
    IF n = 1 THEN { <<len>> }
    ELSE UNION { { <<k>> \o r : r \in PartLengths(len - k, n - 1) } :
                 k \in 0..len }

RECURSIVE SumUpTo(_, _)
SumUpTo(lens, i) == IF i = 0 THEN 0 ELSE lens[i] + SumUpTo(lens, i - 1)

FunctionName(i) == "f" \o ToString(i)

\* an absent events list and an empty one are both inputs
EventsField(part, absent) ==
    IF part = <<>> /\ absent THEN None ELSE Some(part)

\* the function map of the events evs cut into parts of the lengths lens
FunctionsOf(evs, lens, absent) ==
    [i \in 1..Len(lens) |->
        [name |-> FunctionName(i),
         events |-> EventsField(SubSeq(evs, SumUpTo(lens, i - 1) + 1,
                                       SumUpTo(lens, i)), absent)]]

\* the functions of the runs of the whole command
CommandFunctionsInputs ==
    { <<>>,
      << [name |-> "f1",
          events |-> Some(<< [http |-> Some(Trigger(<<"u">>, "get")),
                              httpApi |-> None] >>)] >> }

(***************************************************************************)
(* Specifications.  Each one leaves the variables of the others at rest.   *)
(***************************************************************************)
CommandAtRest ==
    /\ swagger = InitialSwagger
    /\ typefiles = None
    /\ defaultFile = [kind |-> "ok", schemas |-> EmptyMap]
    /\ typesFile = <<>>
    /\ promises = <<>>
    /\ combinedDefinitions = EmptyMap
    /\ written = None

HelpersAtRest ==
    /\ httpEvent = Trigger(<<"/">>, "get")
    /\ parameters = None
    /\ responses = None
    /\ formatted = None

\* the generate-swagger command, from the construction of the plugin
Init ==
    /\ pc = "beforeGather"
    /\ swagger = InitialSwagger
    /\ functions \in CommandFunctionsInputs
    /\ \/ /\ typefiles = None
          /\ defaultFile \in SourceInputs
       \/ /\ typefiles \in { Some(l) : l \in SeqsUpTo(SourceInputs, MaxSources) }
          /\ defaultFile = [kind |-> "ok", schemas |-> EmptyMap]
    /\ typesFile = <<>>
    /\ promises = <<>>
    /\ combinedDefinitions = EmptyMap
    /\ written = None
    /\ HelpersAtRest

Next ==
    \/ BeforeGather
    \/ GatherTypesStart
    \/ \E i \in 1..MaxSources : ConvertSettles(i)
    \/ GatherTypesAssign
    \/ GatherTypesCatch
    \/ GenerateSwagger
    \/ WriteFileDone
    \/ WriteFileFails
    \/ AddEndpointsAndLambda

Spec == Init /\ [][Next]_vars

\* httpEventToParameters on every input event
InitParameters ==
    /\ pc = "httpEventToParameters"
    /\ functions = <<>>
    /\ CommandAtRest
    /\ httpEvent \in HttpEventInputs
    /\ parameters = None
    /\ responses = None
    /\ formatted = None

CallHttpEventToParameters ==
    /\ pc = "httpEventToParameters"
    /\ parameters' = Some(httpEventToParameters(httpEvent))
    /\ pc' = "returned"
    /\ UNCHANGED <<swagger, functions, typefiles, defaultFile, typesFile, promises,
                   combinedDefinitions, written, httpEvent, responses,
                   formatted>>

NextParameters == CallHttpEventToParameters

SpecParameters == InitParameters /\ [][NextParameters]_vars

\* formatResponses on every input declaration
InitResponses ==
    /\ pc = "formatResponses"
    /\ functions = <<>>
    /\ CommandAtRest
    /\ httpEvent = Trigger(<<"/">>, "get")
    /\ parameters = None
    /\ responses \in ResponsesInputs
    /\ formatted = None

CallFormatResponses ==
    /\ pc = "formatResponses"
    /\ formatted' = Some(formatResponses(responses))
    /\ pc' = "returned"
    /\ UNCHANGED <<swagger, functions, typefiles, defaultFile, typesFile, promises,
                   combinedDefinitions, written, httpEvent, parameters,
                   responses>>

NextResponses == CallFormatResponses

SpecResponses == InitResponses /\ [][NextResponses]_vars

\* generatePaths on every function map of at most MaxFunctions functions that
\* declare at most MaxEvents events in all
InitPaths ==
    /\ pc = "generatePaths"
    /\ \E evs \in SeqsUpTo(EventInputs, MaxEvents), n \in 0..MaxFunctions,
          absent \in BOOLEAN :
           IF n = 0
           THEN evs = <<>> /\ ~absent /\ functions = <<>>
           ELSE \E lens \in PartLengths(Len(evs), n) :
                    functions = FunctionsOf(evs, lens, absent)
    /\ CommandAtRest
    /\ HelpersAtRest

CallGeneratePaths ==
    /\ pc = "generatePaths"
    /\ swagger' = [swagger EXCEPT !.paths = generatePaths(functions)]
    /\ pc' = "returned"
    /\ UNCHANGED <<functions, typefiles, defaultFile, typesFile, promises,
                   combinedDefinitions, written, httpEvent, parameters,
                   responses, formatted>>

NextPaths == CallGeneratePaths

SpecPaths == InitPaths /\ [][NextPaths]_vars

(***************************************************************************)
(* Claims about httpEventToParameters (SpecParameters).                    *)
(***************************************************************************)
Returned == pc = "returned"

IsPathParameter(x) == x.in = "path"
IsBodyParameter(x) == x.in = "body"
PathParametersOf(ps) == SelectSeq(ps, IsPathParameter)

\* p[i..j] is a placeholder {name}: braces around a non-empty brace-free name
Placeholder(p, i, j) ==
    /\ i \in 1..Len(p) /\ j \in 1..Len(p)
    /\ p[i] = "{" /\ p[j] = "}" /\ j > i + 1
    /\ \A k \in (i + 1)..(j - 1) : ~IsBrace(p[k])

PlaceholderStarts(p) ==
    { i \in 1..Len(p) : \E j \in 1..Len(p) : Placeholder(p, i, j) }

PlaceholderNameAt(p, i) ==
    LET j == CHOOSE j \in 1..Len(p) : Placeholder(p, i, j)
    IN  SubSeq(p, i + 1, j - 1)

\* the names of the placeholders, left to right
PlaceholderNames(p) ==
    LET S == PlaceholderStarts(p)
        Nth(k) == CHOOSE i \in S : Cardinality({ x \in S : x < i }) = k - 1
    IN  [k \in 1..Cardinality(S) |-> PlaceholderNameAt(p, Nth(k))]

DistinctEntries(names) ==
    \A i, j \in 1..Len(names) : i # j => names[i] # names[j]

\* every "}" that ends a brace-free run closes a {name} placeholder
BracesDelimitPlaceholders(p) ==
    \A j \in 2..Len(p) :
        (p[j] = "}" /\ ~IsBrace(p[j - 1]))
            => \E i \in 1..Len(p) : Placeholder(p, i, j)

IsTemplateOfDistinctPlaceholders(p) ==
    BracesDelimitPlaceholders(p) /\ DistinctEntries(PlaceholderNames(p))

DeclaredNameSet(raw) == { raw[i][1] : i \in 1..Len(raw) }
EntrySet(names) == { names[i] : i \in 1..Len(names) }

IsUndeclared(raw, n) == n \notin DeclaredNameSet(raw)

RECURSIVE Undeclared(_, _)
Undeclared(names, raw) ==
    IF names = <<>> THEN <<>>
    ELSE (IF IsUndeclared(raw, Head(names)) THEN <<Head(names)>> ELSE <<>>)
             \o Undeclared(Tail(names), raw)

\* C5: with an explicit parameters.path declaration (an empty one included)
\* the path parameters start with one parameter per declared name, carrying
\* the declared required flag, whether or not the name is in the template;
\* they go on with required parameters only, among them every placeholder
\* name of the template that the declaration leaves out; for a template of
\* placeholders with distinct names these are exactly the names left out, in
\* template order.
C5_ExplicitPathParameters ==
    (Returned /\ HasDeclaredPath(httpEvent))
        => LET raw == Get(DeclaredPath(httpEvent))
               pp == PathParametersOf(Get(parameters))
               names == PlaceholderNames(httpEvent.path)
               left == EntrySet(names) \ DeclaredNameSet(raw)
           IN  /\ Len(pp) >= Len(raw)
               /\ \A i \in 1..Len(raw) :
                      pp[i] = [name |-> raw[i][1], in |-> "path",
                               required |-> raw[i][2], type |-> "string"]
               /\ \A i \in (Len(raw) + 1)..Len(pp) :
                      pp[i].required = TRUE /\ pp[i].type = "string"
               /\ \A n \in left :
                      \E i \in (Len(raw) + 1)..Len(pp) : pp[i].name = n
               /\ IsTemplateOfDistinctPlaceholders(httpEvent.path)
                      => [i \in 1..(Len(pp) - Len(raw)) |->
                             pp[Len(raw) + i].name] = Undeclared(names, raw)

C5_Witness ==
    /\ Returned
    /\ httpEvent.path = <<"/", "{", "a", "}">>
    /\ DeclaredPath(httpEvent) = Some(<< <<<<"b">>, FALSE>> >>)
    /\ Len(PathParametersOf(Get(parameters))) = 2
    /\ PathParametersOf(Get(parameters))[1].required = FALSE
    /\ PathParametersOf(Get(parameters))[2].name = <<"a">>

\* C9: the emitted list holds at most one body parameter and no two path
\* parameters of the same name, for every template (one that repeats a
\* placeholder name included) and every explicit declaration.
C9_UniqueParameters ==
    Returned
        => LET ps == Get(parameters)
           IN  /\ Cardinality({ i \in 1..Len(ps) : IsBodyParameter(ps[i]) }) <= 1
               /\ \A i, j \in 1..Len(ps) :
                      (i # j /\ IsPathParameter(ps[i]) /\ IsPathParameter(ps[j]))
                          => ps[i].name # ps[j].name

(***************************************************************************)
(* Claims about formatResponses (SpecResponses).                           *)
(***************************************************************************)
DefaultResponses == [c \in {"200"} |-> [description |-> "200 response"]]

SchemaOf(name) == [ref |-> "#/definitions/" \o name]

\* whether an optional string counts as declared: any defined string, or
\* only a non-empty one
Declared(o, emptyCounts) == IF emptyCounts THEN IsSome(o) ELSE Truthy(o)

\* the entry of one declared status code
ResponseAsClaimed(code, details, out, emptyCounts) ==
    IF details.kind = "string"
    THEN out = [description |-> details.text]
    ELSE /\ out.description = IF Declared(details.description, emptyCounts)
                              THEN Get(details.description)
                              ELSE code \o " response"
         /\ IF Declared(details.bodyType, emptyCounts)
            THEN out = [description |-> out.description,
                        schema |-> SchemaOf(Get(details.bodyType))]
            ELSE out = [description |-> out.description]

ResponsesAsClaimed(emptyCounts) ==
    Returned
        => IF ~IsSome(responses)
           THEN Get(formatted) = DefaultResponses
           ELSE /\ DOMAIN Get(formatted) = DOMAIN Get(responses)
                /\ \A code \in DOMAIN Get(responses) :
                       ResponseAsClaimed(code, Get(responses)[code],
                                         Get(formatted)[code], emptyCounts)

\* C6 as stated: formatResponses returns {200: {description: "200 response"}}
\* when no responses are declared, and otherwise one entry per declared status
\* code: {description: value} for a string value, and for a structured value
\* the declared description, or "<statusCode> response" when it is absent,
\* with schema {$ref: "#/definitions/<name>"} if and only if a body-schema
\* reference name is declared.
C6_ResponsesAsDeclared == ResponsesAsClaimed(TRUE)

\* C6 as amended: the same, an empty declared description counting as absent
\* and an empty body-schema reference name as not declared.
C6_ResponsesAsDeclaredNonEmpty == ResponsesAsClaimed(FALSE)

C6_Witness ==
    /\ Returned
    /\ IsSome(responses)
    /\ DOMAIN Get(responses) = {"201", "404"}
    /\ Get(responses)["201"] = [kind |-> "string", text |-> "Created"]
    /\ Get(responses)["404"] = [kind |-> "object", description |-> Some(""),
                                bodyType |-> Some("User")]
    /\ Get(formatted)["404"] = [description |-> "404 response",
                                schema |-> SchemaOf("User")]

(***************************************************************************)
(* Claims about generatePaths (SpecPaths).                                 *)
(***************************************************************************)
ToLowerCase(method) ==
    CASE method = "GET" -> "get"
      [] method = "POST" -> "post"
      [] OTHER -> method

WithLeadingSlash(path) ==
    IF path # <<>> /\ Head(path) = "/" THEN path ELSE <<"/">> \o path

IsShorthandEvent(event) ==
    IsHttpEvent(event) /\ Get(TriggerOf(event)).kind = "string"

IsObjectEvent(event) ==
    IsHttpEvent(event) /\ Get(TriggerOf(event)).kind = "object"

\* the routes declared in object form: <<function name, trigger>>
ObjectRoutes(fns) ==
    UNION { { <<fns[i].name, Get(TriggerOf(EventsOf(fns[i])[k]))>> :
                  k \in { x \in 1..Len(EventsOf(fns[i])) :
                             IsObjectEvent(EventsOf(fns[i])[x]) } } :
            i \in 1..Len(fns) }

\* C7: every operation is stored under its path with a leading "/" and,
\* within the path, under the lower-case form of its declared method; routes
\* that differ only in the letter case of the method share one key.
C7_LowerCaseMethodKeys ==
    Returned
        => /\ \A r \in ObjectRoutes(functions) :
                  /\ WithLeadingSlash(r[2].path) \in DOMAIN swagger.paths
                  /\ ToLowerCase(r[2].method)
                         \in DOMAIN swagger.paths[WithLeadingSlash(r[2].path)]
           /\ \A q \in DOMAIN swagger.paths :
                  \A m \in DOMAIN swagger.paths[q] : m = ToLowerCase(m)

NotShorthand(event) == ~IsShorthandEvent(event)

WithoutShorthand(fns) ==
    [i \in 1..Len(fns) |->
        [fns[i] EXCEPT !.events =
            IF IsSome(@) THEN Some(SelectSeq(Get(@), NotShorthand)) ELSE @]]

\* C8: a shorthand trigger yields no operation and does not stop the
\* synthesis: the paths map is the one the same functions yield without their
\* shorthand events, and every object-form event has its path and method in
\* it, holding the operation of an object-form event of that path and method.
C8_ShorthandSkipped ==
    Returned
        => /\ swagger.paths = generatePaths(WithoutShorthand(functions))
           /\ \A r \in ObjectRoutes(functions) :
                  LET q == WithLeadingSlash(r[2].path)
                  IN  /\ q \in DOMAIN swagger.paths
                      /\ r[2].method \in DOMAIN swagger.paths[q]
           /\ \A q \in DOMAIN swagger.paths :
                  \A m \in DOMAIN swagger.paths[q] :
                      \E r \in ObjectRoutes(functions) :
                          /\ WithLeadingSlash(r[2].path) = q
                          /\ r[2].method = m
                          /\ swagger.paths[q][m].operationId = r[1]
                          /\ swagger.paths[q][m].parameters =
                                 httpEventToParameters(r[2])

C8_Witness ==
    /\ Returned
    /\ Len(functions) = 2
    /\ Len(EventsOf(functions[1])) = 2
    /\ IsShorthandEvent(EventsOf(functions[1])[1])
    /\ IsObjectEvent(EventsOf(functions[1])[2])
    /\ Len(EventsOf(functions[2])) = 1
    /\ IsObjectEvent(EventsOf(functions[2])[1])
    /\ Cardinality(DOMAIN swagger.paths) = 2

(***************************************************************************)
(* Claims about the generate-swagger command (Spec).                       *)
(***************************************************************************)
GatherTypesFinished == pc \notin {"beforeGather", "gatherTypes", "awaitAll"}

OkSources == { i \in 1..Len(typesFile) : typesFile[i].kind = "ok" }

Defining(n) == { i \in OkSources : n \in DOMAIN typesFile[i].schemas }

\* C1: whatever sources fail, once gatherTypes has finished the definitions
\* of the document are the merge of the schema maps of the sources that did
\* not fail: the names they define, each with a definition one of them gives.
C1_FailingSourcesContributeNothing ==
    GatherTypesFinished
        => /\ IsSome(swagger.definitions)
           /\ DOMAIN Get(swagger.definitions) =
                  UNION { DOMAIN typesFile[i].schemas : i \in OkSources }
           /\ \A n \in DOMAIN Get(swagger.definitions) :
                  \E i \in Defining(n) :
                      Get(swagger.definitions)[n] = typesFile[i].schemas[n]

\* C2: a name that two or more sources define has the definition of the last
\* of them in the configured list, whatever the order in which the
\* conversions complete.
C2_LastConfiguredSourceWins ==
    (GatherTypesFinished /\ IsSome(swagger.definitions))
        => \A n \in SchemaNames :
               Cardinality(Defining(n)) >= 2
                   => LET last == CHOOSE i \in Defining(n) :
                                      \A j \in Defining(n) : j <= i
                      IN  /\ n \in DOMAIN Get(swagger.definitions)
                          /\ Get(swagger.definitions)[n] =
                                 typesFile[last].schemas[n]

\* C3: the document handed to the writer has the title of the service, the
\* definitions assigned by gatherTypes and the paths of generatePaths.
C3_WriterGetsFinishedDocument ==
    pc = "writeFile"
        => /\ IsSome(written)
           /\ Get(written).info.title = ServiceName
           /\ IsSome(Get(written).definitions)
           /\ Get(written).paths = generatePaths(functions)

\* C10: nothing is merged into the combined definitions while a conversion
\* is still pending.
C10_MergeAfterBarrier ==
    (\E i \in DOMAIN promises : promises[i] = "pending")
        => combinedDefinitions = EmptyMap

=============================================================================
